---- MODULE Spec2Model ----
(***************************************************************************)
(* Model of app.py of the Amazon Review Framework service: the framework   *)
(* store (load_framework_files), the component selection and the external  *)
(* generation call of generate_review, and the HTTP handlers               *)
(* GET /files/{filename} (get_file) and POST /generate-review              *)
(* (create_review).                                                        *)
(*                                                                         *)
(* Strings are sequences of tokens, so that str.endswith and += are a      *)
(* suffix test and a concatenation: "x.json" is <<"x", ".", "json">>.      *)
(* The free-text request fields (product_name, product_category,           *)
(* user_experience) are copied into the prompt and influence nothing else; *)
(* they are left out of the state.                                         *)
(***************************************************************************)
EXTENDS Integers, Sequences, FiniteSets, TLC

\* ---------------------------------------------------------------- bounds
\* at most this many entries in the framework directory
MaxFiles == 2
\* at most this many names in include_components
MaxReq == 2
\* at most this many changes of the directory by an external actor
MaxEnvSteps == 1
\* worker threads that run sync_generate_review for the form UI
NumThreads == 2
\* at most this many invocations of sync_generate_review
MaxInvocations == 3

\* ------------------------------------------------------------- constants
FRAMEWORK_DIR == <<"NEW-SYSTEM">>

JSON_EXT == <<".", "json">>

\* the default list with its last name lost
default_components_Two ==
    << <<"framework-config", ".", "json">>,
       <<"review-strategy", ".", "json">> >>

default_components ==
    << <<"framework-config", ".", "json">>,
       <<"review-strategy", ".", "json">>,
       <<"content-structure", ".", "json">> >>

DISABLED_MESSAGE ==
    <<"Anthropic API key not set. Please configure the ANTHROPIC_API_KEY environment variable to use review generation.">>

\* names an entry of the framework directory can have
DirNames ==
    { <<"framework-config", ".", "json">>,
      <<"review-strategy", ".", "json">>,
      <<"content-structure", ".", "json">>,
      <<"x", ".", "json">>,
      <<"x", "json">> }

\* names a caller can pass (include_components entries, {filename})
ReqNames == { <<"x">>, <<"review-strategy", ".", "json">> }

\* file contents
RawTexts == {"{}", "[1]", "{bad"}

Absent == [present |-> FALSE, raw |-> ""]

Entries == { [present |-> TRUE, raw |-> r] : r \in RawTexts }

Threads == 1..NumThreads

\* ---------------------------------------------------------- pure helpers
Range(s) == { s[i] : i \in DOMAIN s }

\* str.endswith
EndsWith(s, suffix) ==
    /\ Len(s) >= Len(suffix)
    /\ SubSeq(s, Len(s) - Len(suffix) + 1, Len(s)) = suffix

\* the suffix appended without the endswith test
Normalize_Always(name) == name \o JSON_EXT

\* if not name.endswith(".json"): name += ".json"
Normalize(name) == IF ~ EndsWith(name, JSON_EXT) THEN name \o JSON_EXT ELSE name

\* json.load on the text of a file: the parsed document, or a decode error
JsonLoad(raw) ==
    CASE raw = "{}"  -> [ok |-> TRUE,  doc |-> "EmptyObject"]
      [] raw = "[1]" -> [ok |-> TRUE,  doc |-> "ListOfOne"]
      [] OTHER       -> [ok |-> FALSE, doc |-> "JSONDecodeError"]

\* with open(file_path) as f: json.load(f), on the current file system: open
\* raises OSError when the entry is not there (any more)
OpenAndLoad(kind, entry) ==
    IF kind = "dir" /\ entry.present
    THEN JsonLoad(entry.raw)
    ELSE [ok |-> FALSE, doc |-> "OSError"]

\* os.path.exists(FRAMEWORK_DIR): true of a directory and of a regular file
PathExists(kind) == kind # "absent"

\* os.path.exists(os.path.join(FRAMEWORK_DIR, filename))
FileExists(kind, entry) == kind = "dir" /\ entry.present

\* the flag set without looking at the key
HasAnthropic_IgnoreKey(key, initOk) == initOk

\* has_anthropic after the module-level initialisation
HasAnthropic(key, initOk) == key # "None" /\ initOk

\* the dict rebound to the one new entry instead of updated
Put_Rebind(d, k, v) == [x \in {k} |-> v]

\* dict assignment d[k] = v
Put(d, k, v) == [x \in (DOMAIN d) \cup {k} |-> IF x = k THEN v ELSE d[x]]

\* for component in default_components: if component in framework_files: ...
RECURSIVE SelectDefaults(_, _, _)
SelectDefaults(store, names, acc) ==
    IF names = <<>> THEN acc
    ELSE LET component == Head(names) IN
         SelectDefaults(store, Tail(names),
                        IF component \in DOMAIN store
                        THEN Put(acc, component, store[component])
                        ELSE acc)

\* the loop left at the first name that is not in the store
RECURSIVE SelectRequested_StopAtMiss(_, _, _)
SelectRequested_StopAtMiss(store, names, acc) ==
    IF names = <<>> THEN acc
    ELSE LET component == Normalize(Head(names)) IN
         IF component \in DOMAIN store
         THEN SelectRequested_StopAtMiss(store, Tail(names),
                                         Put(acc, component, store[component]))
         ELSE acc

\* for component in request.include_components: normalise, then look up
RECURSIVE SelectRequested(_, _, _)
SelectRequested(store, names, acc) ==
    IF names = <<>> THEN acc
    ELSE LET component == Normalize(Head(names)) IN
         SelectRequested(store, Tail(names),
                         IF component \in DOMAIN store
                         THEN Put(acc, component, store[component])
                         ELSE acc)

\* the components dict of generate_review
SelectComponents(store, requested) ==
    IF requested = <<>>
    THEN SelectDefaults(store, default_components, <<>>)
    ELSE SelectRequested(store, requested, <<>>)

\* components_used of create_review
ComponentsUsed(requested) ==
    IF requested = <<>>
    THEN default_components
    ELSE [i \in DOMAIN requested |-> Normalize(requested[i])]

\* the message of the exception returned without the prefix
ErrorReview_NoPrefix(msg) == <<msg>>

\* f"Error generating review: {str(e)}"
ErrorReview(msg) == <<"Error generating review: ", msg>>

\* f"File {filename} not found in {FRAMEWORK_DIR}"
NotFoundDetail(name) == <<"File ">> \o name \o <<" not found in ">> \o FRAMEWORK_DIR

\* what awaiting client.messages.create(...) and reading content[0].text can
\* do: give the text of the first segment, raise inside the client (timeout,
\* authentication, rate limit), return a message without content, or return
\* an object that cannot be awaited
ApiOutcomes ==
    { [kind |-> "returns",     text |-> "Great product."],
      [kind |-> "raises",      text |-> "Request timed out."],
      [kind |-> "malformed",   text |-> "list index out of range"],
      [kind |-> "unawaitable", text |-> "object Message can't be used in 'await' expression"] }

NoResult == [kind |-> "none", text |-> ""]

NoResponse ==
    [status |-> 0, review |-> <<>>, components_used |-> <<>>,
     body |-> "", detail |-> <<>>]

\* -------------------------------------------------------------- the state
VARIABLES
    dirKind,            \* FRAMEWORK_DIR on disk: "absent", "dir" or "file"
    files,              \* the entries of the directory, by name
    envSteps,           \* changes made by the external actor so far
    ANTHROPIC_API_KEY,  \* the environment variable, "None" when unset
    has_anthropic,      \* module-level flag
    client,             \* module-level client handle, "None" when absent
    op,                 \* the running operation
    pc,                 \* its position
    include_components, \* request.include_components of create_review
    filename,           \* the path parameter of get_file
    framework_files,    \* local of load_framework_files and of its caller
    listing,            \* entries of os.listdir not yet visited
    components,         \* local of generate_review
    sent,               \* prompts sent to the external API by this invocation
    apiResult,          \* what the external API did for this invocation
    review,             \* the return value of generate_review
    outcome,            \* how generate_review ended
    exc,                \* the exception that left the operation, or "none"
    response,           \* the HTTP response of the handler
    spc,                \* per worker thread: position in sync_generate_review
    inv,                \* per worker thread: the invocation it runs, 0 if none
    loopOf,             \* per worker thread: the local variable loop, 0 unset
    current,            \* per worker thread: the loop of asyncio.set_event_loop
    sres,               \* per worker thread: how the invocation is ending
    loops,              \* every event loop created so far, by identity
    invCount            \* invocations of sync_generate_review started so far

vars ==
    << dirKind, files, envSteps, ANTHROPIC_API_KEY, has_anthropic, client,
       op, pc, include_components, filename, framework_files, listing,
       components, sent, apiResult, review, outcome, exc, response,
       spc, inv, loopOf, current, sres, loops, invCount >>

syncVars == << spc, inv, loopOf, current, sres, loops, invCount >>

envVars == << dirKind, files, envSteps >>
modVars == << ANTHROPIC_API_KEY, has_anthropic, client >>

NumFiles(f) == Cardinality({ n \in DirNames : f[n].present })

NoFiles == [n \in DirNames |-> Absent]

\* request lists of at most MaxReq names
RECURSIVE SeqsUpTo(_, _)
SeqsUpTo(S, n) ==
    IF n = 0 THEN { <<>> }
    ELSE LET shorter == SeqsUpTo(S, n - 1) IN
         shorter \cup { Append(s, x) : s \in shorter, x \in S }

Init ==
    /\ dirKind \in {"absent", "dir", "file"}
    /\ files \in { f \in [DirNames -> Entries \cup {Absent}] :
                     /\ NumFiles(f) <= MaxFiles
                     /\ dirKind # "dir" => f = NoFiles }
    /\ envSteps = 0
    /\ ANTHROPIC_API_KEY \in {"None", "sk-ant-key"}
    /\ \E initOk \in BOOLEAN :
          /\ ANTHROPIC_API_KEY = "None" => initOk
          /\ has_anthropic = HasAnthropic(ANTHROPIC_API_KEY, initOk)
    /\ client = IF has_anthropic THEN "client" ELSE "None"
    /\ op = "idle"
    /\ pc = "idle"
    /\ include_components = <<>>
    /\ filename = <<>>
    /\ framework_files = <<>>
    /\ listing = {}
    /\ components = <<>>
    /\ sent = <<>>
    /\ apiResult = NoResult
    /\ review = <<>>
    /\ outcome = "none"
    /\ exc = "none"
    /\ response = NoResponse
    /\ spc = [t \in Threads |-> "idle"]
    /\ inv = [t \in Threads |-> 0]
    /\ loopOf = [t \in Threads |-> 0]
    /\ current = [t \in Threads |-> 0]
    /\ sres = [t \in Threads |-> "none"]
    /\ loops = <<>>
    /\ invCount = 0

\* ------------------------------------------------------------ operations
Idle == pc = "idle"

ResetLocals ==
    /\ framework_files' = <<>>
    /\ listing' = {}
    /\ components' = <<>>
    /\ sent' = <<>>
    /\ apiResult' = NoResult
    /\ review' = <<>>
    /\ outcome' = "none"
    /\ exc' = "none"
    /\ response' = NoResponse

\* a caller (list_files, get_framework, the UI construction) calls
\* load_framework_files()
CallLoadFrameworkFiles ==
    /\ Idle
    /\ op' = "load"
    /\ pc' = "exists"
    /\ include_components' = <<>>
    /\ filename' = <<>>
    /\ ResetLocals
    /\ UNCHANGED << syncVars, envVars, modVars >>

\* GET /files/{filename}
CallGetFile ==
    /\ Idle
    /\ \E name \in ReqNames :
          filename' = name
    /\ op' = "get_file"
    /\ pc' = "normalize"
    /\ include_components' = <<>>
    /\ ResetLocals
    /\ UNCHANGED << syncVars, envVars, modVars >>

\* POST /generate-review
CallCreateReview ==
    /\ Idle
    /\ \E requested \in SeqsUpTo(ReqNames, MaxReq) :
          include_components' = requested
    /\ op' = "create_review"
    /\ pc' = "cred"
    /\ filename' = <<>>
    /\ ResetLocals
    /\ UNCHANGED << syncVars, envVars, modVars >>

\* where load_framework_files returns to
AfterLoad ==
    CASE op = "get_file"      -> "lookup"
      [] op = "create_review" -> "select"
      [] OTHER                -> "done"

\* if not os.path.exists(FRAMEWORK_DIR): return framework_files
LoadExists ==
    /\ pc = "exists"
    /\ pc' = IF PathExists(dirKind) THEN "listdir" ELSE AfterLoad
    /\ UNCHANGED << syncVars, envVars, modVars, op, include_components, filename,
                    framework_files, listing, components, sent, apiResult,
                    review, outcome, exc, response >>

\* os.listdir(FRAMEWORK_DIR), outside any try: an OSError leaves
\* load_framework_files and its caller; the web framework answers 500
LoadListdir ==
    /\ pc = "listdir"
    /\ IF dirKind = "dir"
       THEN /\ listing' = { n \in DirNames : files[n].present }
            /\ pc' = "loop"
            /\ UNCHANGED << exc, outcome, response >>
       ELSE /\ exc' = IF dirKind = "absent" THEN "FileNotFoundError"
                                            ELSE "NotADirectoryError"
            /\ outcome' = IF op = "create_review" THEN "raised" ELSE outcome
            /\ response' = IF op \in {"get_file", "create_review"}
                           THEN [NoResponse EXCEPT !.status = 500]
                           ELSE response
            /\ pc' = "done"
            /\ UNCHANGED listing
    /\ UNCHANGED << syncVars, envVars, modVars, op, include_components, filename,
                    framework_files, components, sent, apiResult, review >>

\* one iteration of the loop over the listing
LoadFile ==
    /\ pc = "loop"
    /\ \E name \in listing :
          /\ listing' = listing \ {name}
          /\ LET loaded == OpenAndLoad(dirKind, files[name]) IN
             framework_files' =
                IF EndsWith(name, JSON_EXT) /\ loaded.ok
                THEN Put(framework_files, name, loaded.doc)
                ELSE framework_files
    /\ UNCHANGED << syncVars, envVars, modVars, op, pc, include_components, filename,
                    components, sent, apiResult, review, outcome, exc,
                    response >>

\* return framework_files
LoadReturn ==
    /\ pc = "loop"
    /\ listing = {}
    /\ pc' = AfterLoad
    /\ UNCHANGED << syncVars, envVars, modVars, op, include_components, filename,
                    framework_files, listing, components, sent, apiResult,
                    review, outcome, exc, response >>

\* generate_review: if not has_anthropic: return the disabled message
GenCredentialCheck ==
    /\ pc = "cred"
    /\ IF ~ has_anthropic
       THEN /\ review' = DISABLED_MESSAGE
            /\ outcome' = "disabled"
            /\ pc' = "respond"
       ELSE /\ pc' = "exists"
            /\ UNCHANGED << review, outcome >>
    /\ UNCHANGED << syncVars, envVars, modVars, op, include_components, filename,
                    framework_files, listing, components, sent, apiResult,
                    exc, response >>

\* generate_review: the selection of the components
GenSelect ==
    /\ pc = "select"
    /\ components' = SelectComponents(framework_files, include_components)
    /\ pc' = "call"
    /\ UNCHANGED << syncVars, envVars, modVars, op, include_components, filename,
                    framework_files, listing, sent, apiResult, review,
                    outcome, exc, response >>

\* the prompt: the template around json.dumps(components, indent=2)
Prompt(comps) == [components |-> comps]

\* generate_review: the prompt, the one call of the external API inside
\* try/except Exception, and the return of the text or of the error string.
\* client.messages on a missing client raises AttributeError inside the try.
GenCall ==
    /\ pc = "call"
    /\ IF client = "None"
       THEN /\ review' = ErrorReview("'NoneType' object has no attribute 'messages'")
            /\ outcome' = "caught-failure"
            /\ UNCHANGED << sent, apiResult >>
       ELSE \E result \in ApiOutcomes :
               /\ sent' = Append(sent, Prompt(components))
               /\ apiResult' = result
               /\ IF result.kind = "returns"
                  THEN /\ review' = << result.text >>
                       /\ outcome' = "success"
                  ELSE /\ review' = ErrorReview(result.text)
                       /\ outcome' = "caught-failure"
    /\ pc' = "respond"
    /\ UNCHANGED << syncVars, envVars, modVars, op, include_components, filename,
                    framework_files, listing, components, exc, response >>

\* create_review after generate_review returned: components_used and the
\* ReviewResponse, answered with HTTP 200
CreateReviewRespond ==
    /\ pc = "respond"
    /\ response' = [NoResponse EXCEPT
                       !.status = 200,
                       !.review = review,
                       !.components_used = ComponentsUsed(include_components)]
    /\ pc' = "done"
    /\ UNCHANGED << syncVars, envVars, modVars, op, include_components, filename,
                    framework_files, listing, components, sent, apiResult,
                    review, outcome, exc >>

\* get_file: if not filename.endswith(".json"): filename += ".json"
GetFileNormalize ==
    /\ pc = "normalize"
    /\ filename' = Normalize(filename)
    /\ pc' = "exists"
    /\ UNCHANGED << syncVars, envVars, modVars, op, include_components,
                    framework_files, listing, components, sent, apiResult,
                    review, outcome, exc, response >>

\* get_file: the lookup in the loaded store
GetFileLookup ==
    /\ pc = "lookup"
    /\ IF filename \in DOMAIN framework_files
       THEN /\ response' = [NoResponse EXCEPT
                               !.status = 200,
                               !.body = framework_files[filename]]
            /\ pc' = "done"
       ELSE /\ pc' = "fallback"
            /\ UNCHANGED response
    /\ UNCHANGED << syncVars, envVars, modVars, op, include_components, filename,
                    framework_files, listing, components, sent, apiResult,
                    review, outcome, exc >>

\* get_file: the direct read of the path, then HTTPException(404)
GetFileFallback ==
    /\ pc = "fallback"
    /\ LET loaded == OpenAndLoad(dirKind, files[filename]) IN
       response' =
          IF filename \in DirNames
             /\ FileExists(dirKind, files[filename]) /\ loaded.ok
          THEN [NoResponse EXCEPT !.status = 200, !.body = loaded.doc]
          ELSE [NoResponse EXCEPT !.status = 404,
                                  !.detail = NotFoundDetail(filename)]
    /\ pc' = "done"
    /\ UNCHANGED << syncVars, envVars, modVars, op, include_components, filename,
                    framework_files, listing, components, sent, apiResult,
                    review, outcome, exc >>

\* the operation is over: its caller has the result, its locals are gone
Finish ==
    /\ pc = "done"
    /\ op' = "idle"
    /\ pc' = "idle"
    /\ include_components' = <<>>
    /\ filename' = <<>>
    /\ ResetLocals
    /\ UNCHANGED << syncVars, envVars, modVars >>

\* ------------------------------------------------- the external actor
\* Another process changes the framework directory between two reads of the
\* disk by the running operation: after the existence check, during the loop
\* over the listing, and before the direct read of get_file.  A change before
\* the first read is a different initial directory, and a change after the
\* last read is seen by nobody.
EnvMayAct ==
    /\ pc \in {"listdir", "loop", "lookup", "fallback"}
    /\ envSteps < MaxEnvSteps

handlerVars ==
    << op, pc, include_components, filename, framework_files, listing,
       components, sent, apiResult, review, outcome, exc, response >>

EnvRemoveDir ==
    /\ EnvMayAct
    /\ dirKind # "absent"
    /\ dirKind' = "absent"
    /\ files' = NoFiles
    /\ envSteps' = envSteps + 1
    /\ UNCHANGED << syncVars, modVars, handlerVars >>

EnvReplaceDirByFile ==
    /\ EnvMayAct
    /\ dirKind # "file"
    /\ dirKind' = "file"
    /\ files' = NoFiles
    /\ envSteps' = envSteps + 1
    /\ UNCHANGED << syncVars, modVars, handlerVars >>

EnvCreateDir ==
    /\ EnvMayAct
    /\ dirKind # "dir"
    /\ dirKind' = "dir"
    /\ files' = NoFiles
    /\ envSteps' = envSteps + 1
    /\ UNCHANGED << syncVars, modVars, handlerVars >>

EnvWriteFile ==
    /\ EnvMayAct
    /\ dirKind = "dir"
    /\ \E name \in DirNames, entry \in Entries :
          /\ files[name] # entry
          /\ files' = [files EXCEPT ![name] = entry]
          /\ NumFiles(files') <= MaxFiles
    /\ envSteps' = envSteps + 1
    /\ UNCHANGED << syncVars, dirKind, modVars, handlerVars >>

EnvDeleteFile ==
    /\ EnvMayAct
    /\ dirKind = "dir"
    /\ \E name \in DirNames :
          /\ files[name].present
          /\ files' = [files EXCEPT ![name] = Absent]
    /\ envSteps' = envSteps + 1
    /\ UNCHANGED << syncVars, dirKind, modVars, handlerVars >>

\* ------------------------------------------------------ specifications
Handler ==
    \/ CallLoadFrameworkFiles
    \/ CallGetFile
    \/ CallCreateReview
    \/ LoadExists
    \/ LoadListdir
    \/ LoadFile
    \/ LoadReturn
    \/ GenCredentialCheck
    \/ GenSelect
    \/ GenCall
    \/ CreateReviewRespond
    \/ GetFileNormalize
    \/ GetFileLookup
    \/ GetFileFallback
    \/ Finish

Next ==
    \/ Handler
    \/ EnvRemoveDir
    \/ EnvReplaceDirByFile
    \/ EnvCreateDir
    \/ EnvWriteFile
    \/ EnvDeleteFile

Spec == Init /\ [][Next]_vars

\* the same program on a directory nobody else touches
StaticSpec == Init /\ [][Handler]_vars

\* ------------------------------------------- sync_generate_review
\* The form UI calls sync_generate_review on worker threads, several at a
\* time; a worker thread has no running event loop of its own and runs one
\* invocation after the other.  An event loop is an object with an identity,
\* here its index in loops; the record keeps who created it, who ran on it,
\* whose coroutine completed on it and who closed it.

\* new_event_loop taken from the thread's current loop when there is one
NewEventLoop_Reuse(created, cur) == IF cur # 0 THEN cur ELSE Len(created) + 1

\* asyncio.new_event_loop(): an object that did not exist before
NewEventLoop(created, cur) == Len(created) + 1

\* how generate_review(request) ends on a directory nobody changes: the
\* disabled message without a credential, the OSError of os.listdir when
\* FRAMEWORK_DIR is a regular file, else the text or the error string
GenerateReviewOutcomes(has, kind) ==
    IF ~ has THEN {"disabled"}
    ELSE IF kind = "file" THEN {"raised"}
    ELSE {"success", "caught-failure"}

mainVars == << envVars, modVars, handlerVars >>

\* GenerateReviewOutcomes is what generate_review does inside create_review
\* when nobody changes the directory (an invariant of StaticSpec)
OutcomesAgree ==
    (op = "create_review" /\ pc = "done") =>
        outcome \in GenerateReviewOutcomes(has_anthropic, dirKind)

\* sync_generate_review(...) is called: the ReviewRequest is built
SyncCall(t) ==
    /\ spc[t] = "idle"
    /\ invCount < MaxInvocations
    /\ invCount' = invCount + 1
    /\ inv' = [inv EXCEPT ![t] = invCount + 1]
    /\ spc' = [spc EXCEPT ![t] = "new_loop"]
    /\ UNCHANGED << loopOf, current, sres, loops, mainVars >>

\* loop = asyncio.new_event_loop()
SyncNewLoop(t) ==
    /\ spc[t] = "new_loop"
    /\ LET l == NewEventLoop(loops, current[t]) IN
          /\ loopOf' = [loopOf EXCEPT ![t] = l]
          /\ loops' = IF l > Len(loops)
                      THEN Append(loops, [creator |-> inv[t], state |-> "open",
                                          ran |-> {}, completed |-> {},
                                          closedBy |-> {}])
                      ELSE loops
    /\ spc' = [spc EXCEPT ![t] = "set_loop"]
    /\ UNCHANGED << inv, current, sres, invCount, mainVars >>

\* asyncio.set_event_loop(loop): the current loop of this thread
SyncSetLoop(t) ==
    /\ spc[t] = "set_loop"
    /\ current' = [current EXCEPT ![t] = loopOf[t]]
    /\ spc' = [spc EXCEPT ![t] = "run"]
    /\ UNCHANGED << inv, loopOf, sres, loops, invCount, mainVars >>

\* loop.run_until_complete(generate_review(request)) starts: RuntimeError on
\* a closed or an already running loop, else the loop runs the coroutine
SyncRunStart(t) ==
    /\ spc[t] = "run"
    /\ LET l == loopOf[t] IN
       IF loops[l].state # "open"
       THEN /\ sres' = [sres EXCEPT ![t] = "RuntimeError"]
            /\ spc' = [spc EXCEPT ![t] = "close"]
            /\ UNCHANGED loops
       ELSE /\ loops' = [loops EXCEPT ![l].state = "running",
                                      ![l].ran = @ \cup {inv[t]}]
            /\ spc' = [spc EXCEPT ![t] = "running"]
            /\ UNCHANGED sres
    /\ UNCHANGED << inv, loopOf, current, invCount, mainVars >>

\* generate_review ends and run_until_complete hands its result, or its
\* exception, to sync_generate_review; the loop has stopped
SyncRunComplete(t) ==
    /\ spc[t] = "running"
    /\ \E how \in GenerateReviewOutcomes(has_anthropic, dirKind) :
          sres' = [sres EXCEPT ![t] = how]
    /\ loops' = [loops EXCEPT ![loopOf[t]].state = "open",
                              ![loopOf[t]].completed = @ \cup {inv[t]}]
    /\ spc' = [spc EXCEPT ![t] = "close"]
    /\ UNCHANGED << inv, loopOf, current, invCount, mainVars >>

\* finally: loop.close(); RuntimeError on a running loop
SyncClose(t) ==
    /\ spc[t] = "close"
    /\ LET l == loopOf[t] IN
       IF loops[l].state = "running"
       THEN /\ sres' = [sres EXCEPT ![t] = "RuntimeError"]
            /\ UNCHANGED loops
       ELSE /\ loops' = [loops EXCEPT ![l].state = "closed",
                                      ![l].closedBy = @ \cup {inv[t]}]
            /\ UNCHANGED sres
    /\ spc' = [spc EXCEPT ![t] = "done"]
    /\ UNCHANGED << inv, loopOf, current, invCount, mainVars >>

\* return review, or the exception leaves sync_generate_review; the thread
\* keeps its current loop and takes the next invocation
SyncReturn(t) ==
    /\ spc[t] = "done"
    /\ spc' = [spc EXCEPT ![t] = "idle"]
    /\ inv' = [inv EXCEPT ![t] = 0]
    /\ loopOf' = [loopOf EXCEPT ![t] = 0]
    /\ sres' = [sres EXCEPT ![t] = "none"]
    /\ UNCHANGED << current, loops, invCount, mainVars >>

SyncInit == Init /\ files = NoFiles

SyncNext ==
    \E t \in Threads :
        \/ SyncCall(t)
        \/ SyncNewLoop(t)
        \/ SyncSetLoop(t)
        \/ SyncRunStart(t)
        \/ SyncRunComplete(t)
        \/ SyncClose(t)
        \/ SyncReturn(t)

SyncSpec == SyncInit /\ [][SyncNext]_vars

TypeOK ==
    /\ dirKind \in {"absent", "dir", "file"}
    /\ files \in [DirNames -> Entries \cup {Absent}]
    /\ NumFiles(files) <= MaxFiles
    /\ envSteps \in 0..MaxEnvSteps
    /\ has_anthropic \in BOOLEAN
    /\ op \in {"idle", "load", "get_file", "create_review"}
    /\ pc \in {"idle", "exists", "listdir", "loop", "cred", "select", "call",
               "respond", "normalize", "lookup", "fallback", "done"}
    /\ listing \subseteq DirNames
    /\ DOMAIN framework_files \subseteq DirNames
    /\ Len(sent) \in 0..1
    /\ outcome \in {"none", "disabled", "success", "caught-failure", "raised"}
    /\ response.status \in {0, 200, 404, 500}

\* ---------------------------------------------------------------- claims
\* generate_review has run its selection in the current create_review
Selected ==
    /\ op = "create_review"
    /\ \/ pc = "call"
       \/ pc \in {"respond", "done"} /\ outcome \in {"success", "caught-failure"}

\* load_framework_files has returned its mapping to the caller
LoadReturned ==
    \/ op = "load" /\ pc = "done" /\ exc = "none"
    \/ pc \in {"lookup", "select"}

\* C1: whenever the external call of generate_review has failed, with any
\* exception, generate_review has returned (not raised) the text
\* "Error generating review: " followed by the message of the exception, and
\* the answer of POST /generate-review is HTTP 200 with that text in review.
C1_CallFailureBecomesText ==
    (op = "create_review" /\ apiResult.kind \notin {"none", "returns"}) =>
        /\ pc \in {"respond", "done"}
        /\ exc = "none"
        /\ outcome = "caught-failure"
        /\ review = <<"Error generating review: ", apiResult.text>>
        /\ pc = "done" =>
              /\ response.status = 200
              /\ response.review = <<"Error generating review: ", apiResult.text>>

C1_Witness ==
    /\ op = "create_review"
    /\ pc = "done"
    /\ apiResult = [kind |-> "raises", text |-> "Request timed out."]
    /\ response.status = 200
    /\ response.review = <<"Error generating review: ", "Request timed out.">>

\* C2: with ANTHROPIC_API_KEY unset, an invocation of generate_review sends
\* nothing to the external API at any point, and what it returns is the
\* disabled message.
C2_NoCredentialNoCall ==
    (ANTHROPIC_API_KEY = "None" /\ op = "create_review") =>
        /\ sent = <<>>
        /\ apiResult = NoResult
        /\ pc \in {"cred", "respond", "done"}
        /\ pc \in {"respond", "done"} =>
              /\ outcome = "disabled"
              /\ review = DISABLED_MESSAGE
        /\ pc = "done" => response.review = DISABLED_MESSAGE

C2_Witness ==
    /\ ANTHROPIC_API_KEY = "None"
    /\ op = "create_review"
    /\ pc = "done"
    /\ sent = <<>>
    /\ response.status = 200
    /\ response.review = DISABLED_MESSAGE

\* the names of the documents embedded in the prompts that were sent
EmbeddedNames == UNION { DOMAIN sent[i].components : i \in DOMAIN sent }

\* C3: in every response of POST /generate-review, components_used holds
\* exactly the names of the documents that were found in the store and
\* embedded in the prompt of this request.
C3_ComponentsUsedAreEmbedded ==
    (op = "create_review" /\ pc = "done" /\ response.status = 200) =>
        Range(response.components_used) = EmbeddedNames

\* the entries of the directory that end in .json and parse as JSON
LoadableNames ==
    { n \in DirNames :
        /\ dirKind = "dir"
        /\ files[n].present
        /\ EndsWith(n, JSON_EXT)
        /\ JsonLoad(files[n].raw).ok }

\* C4: on a directory that does not change during the load, the mapping
\* load_framework_files returns has exactly one entry per file that ends in
\* .json and parses as JSON, keyed by the filename, with the parsed document
\* as its value; a malformed file is absent and costs no other entry.
C4_LoadAllExact ==
    LoadReturned =>
        framework_files = [n \in LoadableNames |-> JsonLoad(files[n].raw).doc]

C4_Witness ==
    /\ op = "load"
    /\ pc = "done"
    /\ exc = "none"
    /\ \E good, bad \in DirNames :
          /\ good \in DOMAIN framework_files
          /\ framework_files[good] = "ListOfOne"
          /\ files[bad].present
          /\ files[bad].raw = "{bad"
          /\ EndsWith(bad, JSON_EXT)
          /\ bad \notin DOMAIN framework_files

\* C5: load_framework_files never raises to its caller, whatever the state
\* of the framework directory and whatever an external actor does to it
\* between the existence check and the listing.
C5_LoadNeverRaises == exc = "none"

\* C6: for every name x and every store, resolving [x] and resolving
\* [x + ".json"] select the same mapping.
C6_SuffixEquivalentForEveryName ==
    pc \in {"select", "call"} =>
        \A x \in ReqNames :
            SelectComponents(framework_files, <<x>>)
              = SelectComponents(framework_files, <<x \o JSON_EXT>>)

\* C6 as amended: for every name x that does not already end in ".json" and
\* every store, resolving [x] and resolving [x + ".json"] select the same
\* mapping; the mapping generate_review selected for [x] is that mapping.
C6_SuffixEquivalentForBareNames ==
    pc \in {"select", "call"} =>
        \A x \in ReqNames :
            ~ EndsWith(x, JSON_EXT) =>
               /\ SelectComponents(framework_files, <<x>>)
                    = SelectComponents(framework_files, <<x \o JSON_EXT>>)
               /\ (pc = "call" /\ include_components = <<x>>) =>
                     components
                       = SelectComponents(framework_files, <<x \o JSON_EXT>>)

C6_Witness ==
    /\ op = "create_review"
    /\ pc = "call"
    /\ include_components = << <<"x">> >>
    /\ DOMAIN components = { <<"x", ".", "json">> }
    /\ SelectComponents(framework_files, << <<"x", ".", "json">> >>) = components

\* C7: with an empty include_components, the selected components are
\* exactly the entries of the store named framework-config.json,
\* review-strategy.json or content-structure.json; a default that is not in
\* the store is skipped and nothing is raised.
C7_EmptyRequestSelectsDefaults ==
    (Selected /\ include_components = <<>>) =>
        /\ exc = "none"
        /\ components =
              [n \in (DOMAIN framework_files)
                       \cap { <<"framework-config", ".", "json">>,
                              <<"review-strategy", ".", "json">>,
                              <<"content-structure", ".", "json">> }
                 |-> framework_files[n]]

C7_Witness ==
    /\ op = "create_review"
    /\ pc = "call"
    /\ include_components = <<>>
    /\ <<"content-structure", ".", "json">> \in DOMAIN components
    /\ <<"framework-config", ".", "json">> \notin DOMAIN framework_files
    /\ <<"x", ".", "json">> \in DOMAIN framework_files

\* C8: with a non-empty include_components, the selected components are
\* exactly the entries of the store whose filename is a requested name after
\* the suffix normalisation; a requested name that is not in the store adds
\* nothing and raises nothing.
C8_RequestSelectsNormalizedNames ==
    (Selected /\ include_components # <<>>) =>
        /\ exc = "none"
        /\ components =
              [n \in { m \in DOMAIN framework_files :
                         \E i \in DOMAIN include_components :
                            m = Normalize(include_components[i]) }
                 |-> framework_files[n]]

C8_Witness ==
    /\ op = "create_review"
    /\ pc = "call"
    /\ include_components = << <<"x">>, <<"review-strategy", ".", "json">> >>
    /\ DOMAIN components = { <<"review-strategy", ".", "json">> }
    /\ <<"x", ".", "json">> \notin DOMAIN framework_files
    /\ Cardinality(DOMAIN framework_files) = 2

\* C9: GET /files/{filename} answers with the parsed document, or with HTTP
\* 404 and the detail "File {normalized filename} not found in {directory}",
\* and with no other error status.
C9_GetFileAnswers200Or404 ==
    (op = "get_file" /\ pc = "done") =>
        \/ response.status = 200
        \/ /\ response.status = 404
           /\ response.detail
                = <<"File ">> \o filename \o <<" not found in ", "NEW-SYSTEM">>

\* C10: an invocation of generate_review ends in exactly one of disabled,
\* success and caught-failure, and sends at most one request to the external
\* API.
C10_ThreeTerminalOutcomes ==
    (op = "create_review" /\ pc = "done") =>
        /\ outcome \in {"disabled", "success", "caught-failure"}
        /\ Len(sent) <= 1

\* the worker thread is past loop = asyncio.new_event_loop()
HasLoop(t) == spc[t] \in {"set_loop", "run", "running", "close", "done"}

\* C11: every invocation of sync_generate_review has a loop it created
\* itself, which no other invocation holds, runs on or closes; when the
\* invocation returns or raises, generate_review has run to completion on
\* that loop and the loop is closed.
C11_OwnLoopPerInvocation ==
    /\ \A t \in Threads :
          HasLoop(t) =>
             /\ loopOf[t] \in 1..Len(loops)
             /\ loops[loopOf[t]].creator = inv[t]
    /\ \A t, u \in Threads :
          (t # u /\ HasLoop(t) /\ HasLoop(u)) => loopOf[t] # loopOf[u]
    /\ \A l \in DOMAIN loops :
          /\ loops[l].ran \subseteq {loops[l].creator}
          /\ loops[l].completed \subseteq {loops[l].creator}
          /\ loops[l].closedBy \subseteq {loops[l].creator}
    /\ \A t \in Threads :
          spc[t] = "done" =>
             /\ sres[t] \in {"disabled", "success", "caught-failure", "raised"}
             /\ loops[loopOf[t]].state = "closed"
             /\ loops[loopOf[t]].ran = {inv[t]}
             /\ loops[loopOf[t]].completed = {inv[t]}
             /\ loops[loopOf[t]].closedBy = {inv[t]}

C11_Witness ==
    /\ Len(loops) = 3
    /\ \E t, u \in Threads :
          /\ t # u
          /\ spc[t] = "done"
          /\ sres[t] = "raised"
          /\ inv[t] = 3
          /\ current[t] = loopOf[t]
          /\ spc[u] = "running"
          /\ loops[loopOf[u]].state = "running"
          /\ loops[loopOf[t]].state = "closed"
          /\ \E l \in DOMAIN loops :
                /\ l \notin {loopOf[t], loopOf[u]}
                /\ loops[l].state = "closed"

====
